---- MODULE Spec2Model ----
(***************************************************************************)
(* Amazon-DataProcessing-Agent: the retry loop around one backend call     *)
(* (StrandsBedrockAgent.call_agent_with_retry), the streaming accumulator  *)
(* (StreamingHandler) and the chat session that drives them                *)
(* (UIComponents.render_chat_interface / _process_user_message).           *)
(*                                                                         *)
(* The specifications share the definitions below:                         *)
(*   SpecHandler    one StreamingHandler driven through its public methods *)
(*   SpecSink       one StreamingHandler whose placeholders may raise      *)
(*   SpecRetry      one call_agent_with_retry invocation, any arguments    *)
(*   SpecRetryable  the same, the backend raising retryable errors only    *)
(*   SpecWindow     ChatHistoryManager: add_message, get_context_messages  *)
(*   Spec           one chat session: submissions, Cancel, turns in flight *)
(*   SpecMetrics    one chat session, turn after turn: metrics, Clear      *)
(*   SpecTurns      one chat session, turn after turn, with fairness       *)
(*   SpecClear      one chat session: Cancel, statistics toggles, Clear    *)
(*   SpecManager    MCPAgentManager called before and after initialization *)
(*   SpecThinking   _extract_thinking and _clean_response on one text      *)
(*   SpecPlayground strands-playground: the requests of one userId         *)
(*                                                                         *)
(* A step of a run goes from one blocking point to the next: the backend   *)
(* call agent(...) is the only place where a run waits, and the script is  *)
(* run again (render_chat_interface) on every press of a button, also      *)
(* while a run waits there; st.session_state is shared by all of them.     *)
(***************************************************************************)
EXTENDS Integers, Sequences, FiniteSets, TLC

\* ---------------------------------------------------------------- bounds
\* submissions one session makes (each is one run of _process_user_message)
MaxRuns == 2
\* callback events delivered to one StreamingHandler
MaxEvents == 4
\* consecutive finalize() calls tried on one handler
MaxFinalize == 2
\* largest max_retries argument tried
MaxBudget == 4
\* largest initial_delay argument tried (seconds)
MaxInitialDelay == 3
\* longest assembled text given to _extract_thinking and _clean_response
MaxText == 5
\* requests one user sends to /strandsplayground_agent
MaxRequests == 3
\* longest chat history given to get_context_messages
MaxHistory == 4
\* largest window size tried below MAX_CONTEXT_MESSAGES
MaxWindow == 3
\* most events passed to a handler whose placeholders may raise
MaxSinkEvents == 3

\* ------------------------------------------------------- program constants
MAX_RETRIES == 3
INITIAL_RETRY_DELAY == 2
MAX_CONTEXT_MESSAGES == 10
\* st.session_state.manual_api_prep_time (seconds), manual_engineer_cost ($/hour)
MANUAL_API_PREP_TIME == 30
MANUAL_ENGINEER_COST == 100
\* the prices of _extract_metrics, 0.000003 and 0.000015 dollars a token, in
\* millionths of a dollar
PRICE_INPUT_TOKEN == 3
PRICE_OUTPUT_TOKEN == 15

Runs == 1..MaxRuns
\* the run the unit specifications exercise
UnitRun == CHOOSE r \in Runs : \A s \in Runs : r <= s

\* Python's None
None == "None"

\* ------------------------------------------------------------------- text
\* A str is a sequence of characters; "" is <<>>.
EmptyStr == <<>>
\* the text payloads a "data" callback may carry
Deltas == {EmptyStr, <<"a">>, <<"b">>}

\* --------------------------------------------------------- callback events
\* The kwargs of one callback_handler(**kwargs) call: "data" present or not,
\* the name in current_tool_use (None when absent or falsy), the "complete"
\* flag and the lifecycle key present.
ToolNames == {"glue", "athena"}
LifecycleKinds == {"init_event_loop", "start_event_loop", "start", "message", "force_stop"}

Event(hasData, data, tool, complete, life) ==
    [has_data |-> hasData, data |-> data, tool |-> tool, complete |-> complete, life |-> life]
TextDelta(t) == Event(TRUE, t, None, FALSE, None)
ToolStarted(n) == Event(FALSE, EmptyStr, n, FALSE, None)
Completion == Event(FALSE, EmptyStr, None, TRUE, None)
Lifecycle(k) == Event(FALSE, EmptyStr, None, FALSE, k)

Events ==
    {TextDelta(t) : t \in Deltas}
        \cup {ToolStarted(n) : n \in ToolNames}
        \cup {Completion}
        \cup {Lifecycle(k) : k \in LifecycleKinds}
        \cup {Event(TRUE, <<"a">>, "glue", FALSE, None), Event(TRUE, <<"b">>, None, TRUE, None)}

\* what the backend stub reports to the callback during one call: nothing, or
\* a tool start, a delta and the completion
AttemptStreams == {<<>>, <<ToolStarted("glue"), TextDelta(<<"a">>), Completion>>}

\* ------------------------------------------------------- StreamingHandler
\* What the sink (the two Streamlit placeholders) shows. The message
\* placeholder shows the text last passed to markdown(), through
\* _sanitize_markdown, with the trailing newline while the reply is typed;
\* the tool placeholder shows the status line of tool number n, or nothing.
NothingShown == [drawn |-> FALSE, text |-> EmptyStr, typing |-> FALSE]
MessageShown(text, typing) == [drawn |-> TRUE, text |-> text, typing |-> typing]
NoToolStatus == [n |-> 0, name |-> None, status |-> "empty"]
ToolRunning(n, name) == [n |-> n, name |-> name, status |-> "running"]

\* StreamingHandler.__init__
NewHandler ==
    [content |-> EmptyStr,
     message_placeholder |-> FALSE,
     tool_placeholder |-> FALSE,
     current_tool |-> None,
     tool_count |-> 0,
     message_view |-> NothingShown,
     tool_view |-> NoToolStatus]

\* StreamingHandler.setup_placeholders: both placeholders are attached
SetupPlaceholders(h) ==
    [h EXCEPT !.message_placeholder = TRUE, !.tool_placeholder = TRUE]

\* mutant: the chunk is put in front of the buffer
AppendChunkFront(content, chunk) == chunk \o content

\* mutant: the chunk replaces the buffer
AppendChunkOverwrite(content, chunk) == chunk

\* self.content += text_chunk
AppendChunk(content, chunk) == content \o chunk

\* mutant: a chunk is recorded only when a message placeholder is attached
OnDataNeedsSink(h, ev) ==
    IF ev.has_data /\ h.message_placeholder
    THEN [h EXCEPT !.content = AppendChunk(h.content, ev.data),
                   !.message_view = MessageShown(AppendChunk(h.content, ev.data), TRUE)]
    ELSE h

\* callback_handler, "data" branch: the chunk is appended, then the message
\* placeholder, if there is one, is redrawn
OnData(h, ev) ==
    IF ev.has_data
    THEN [h EXCEPT !.content = AppendChunk(h.content, ev.data),
                   !.message_view =
                       IF h.message_placeholder
                       THEN MessageShown(AppendChunk(h.content, ev.data), TRUE)
                       ELSE @]
    ELSE h

\* mutant: every tool-start event is counted, also one repeating the active tool
OnToolUseCountsAll(h, ev) ==
    IF ev.tool # None
    THEN [h EXCEPT !.current_tool = ev.tool, !.tool_count = h.tool_count + 1]
    ELSE h

\* mutant: the status line of a started tool is written into the text
OnToolUseInText(h, ev) ==
    IF ev.tool # None /\ ev.tool # h.current_tool
    THEN [h EXCEPT !.current_tool = ev.tool, !.tool_count = h.tool_count + 1,
                   !.content = h.content \o <<ev.tool>>]
    ELSE h

\* callback_handler, "current_tool_use" branch: a name other than the active
\* tool's becomes the active tool and is counted; the tool placeholder, if
\* there is one, shows it as running
OnToolUse(h, ev) ==
    IF ev.tool # None /\ ev.tool # h.current_tool
    THEN [h EXCEPT !.current_tool = ev.tool,
                   !.tool_count = h.tool_count + 1,
                   !.tool_view =
                       IF h.tool_placeholder THEN ToolRunning(h.tool_count + 1, ev.tool) ELSE @]
    ELSE h

\* mutant: completion leaves the active tool in place
OnCompleteKeepsTool(h, ev) == h

\* callback_handler, "complete" branch: the tool placeholder shows the active
\* tool as completed and is emptied; the active tool is cleared
OnComplete(h, ev) ==
    IF ev.complete
    THEN [h EXCEPT !.current_tool = None,
                   !.tool_view =
                       IF h.tool_placeholder /\ h.current_tool # None THEN NoToolStatus ELSE @]
    ELSE h

\* callback_handler: the three branches in order; the lifecycle keys are
\* only printed. (The placeholders are taken not to raise.)
CallbackHandler(h, ev) == OnComplete(OnToolUse(OnData(h, ev), ev), ev)

\* callback_handler called once for each event of es, in order
RECURSIVE CallbackHandlerAll(_, _)
CallbackHandlerAll(h, es) ==
    IF es = <<>> THEN h ELSE CallbackHandlerAll(CallbackHandler(h, Head(es)), Tail(es))

\* The calls callback_handler makes on the placeholders; any of them may
\* raise during one callback_handler call.
SinkCalls == {"markdown", "info", "success", "empty"}
ToolCompleted(n, name) == [n |-> n, name |-> name, status |-> "completed"]

\* callback_handler, "data" branch with a sink whose calls in raising raise:
\* the chunk is appended first; raised tells that markdown() raised
OnDataRaising(h, ev, raising) ==
    LET draws == ev.has_data /\ h.message_placeholder
        appended == IF ev.has_data THEN [h EXCEPT !.content = AppendChunk(h.content, ev.data)]
                    ELSE h
    IN IF draws /\ "markdown" \in raising THEN [raised |-> TRUE, h |-> appended]
       ELSE [raised |-> FALSE,
             h |-> IF draws THEN [appended EXCEPT !.message_view = MessageShown(appended.content, TRUE)]
                   ELSE appended]

\* "current_tool_use" branch: the tool is made the active one and counted
\* first; raised tells that info() raised
OnToolUseRaising(h, ev, raising) ==
    LET starts == ev.tool # None /\ ev.tool # h.current_tool
        counted == IF starts
                   THEN [h EXCEPT !.current_tool = ev.tool, !.tool_count = h.tool_count + 1]
                   ELSE h
    IN IF starts /\ h.tool_placeholder /\ "info" \in raising THEN [raised |-> TRUE, h |-> counted]
       ELSE [raised |-> FALSE,
             h |-> IF starts /\ h.tool_placeholder
                   THEN [counted EXCEPT !.tool_view = ToolRunning(counted.tool_count, ev.tool)]
                   ELSE counted]

\* "complete" branch: success() and empty() are called before the active tool
\* is cleared; raised tells that one of them raised
OnCompleteRaising(h, ev, raising) ==
    LET shows == ev.complete /\ h.tool_placeholder /\ h.current_tool # None
    IN IF shows /\ "success" \in raising THEN [raised |-> TRUE, h |-> h]
       ELSE IF shows /\ "empty" \in raising
       THEN [raised |-> TRUE,
             h |-> [h EXCEPT !.tool_view = ToolCompleted(h.tool_count, h.current_tool)]]
       ELSE [raised |-> FALSE,
             h |-> IF ev.complete
                   THEN [h EXCEPT !.current_tool = None,
                                  !.tool_view = IF shows THEN NoToolStatus ELSE @]
                   ELSE h]

\* callback_handler with such a sink: the branches run in order inside one
\* try block; an exception leaves the block at the call that raised, the
\* except clause prints it and the handler returns. propagated tells whether
\* an exception leaves callback_handler.
CallbackHandlerRaising(h, ev, raising) ==
    LET data == OnDataRaising(h, ev, raising)
        tool == OnToolUseRaising(data.h, ev, raising)
        complete == OnCompleteRaising(tool.h, ev, raising)
    IN [propagated |-> FALSE,
        h |-> IF data.raised THEN data.h
              ELSE IF tool.raised THEN tool.h
              ELSE complete.h]

\* mutant: finalize hands the buffer over and empties it
FinalizeClearing(h) == [ret |-> h.content, h |-> [h EXCEPT !.content = EmptyStr]]

\* StreamingHandler.finalize: the message placeholder is redrawn without the
\* typing newline, the tool placeholder emptied; returns self.content
Finalize(h) ==
    [ret |-> h.content,
     h |-> [h EXCEPT !.message_view =
                         IF h.message_placeholder THEN MessageShown(h.content, FALSE) ELSE @,
                     !.tool_view = IF h.tool_placeholder THEN NoToolStatus ELSE @]]

\* ------------------------------------------------------------- exceptions
\* An exception is its class, the phrases its lower-cased message contains
\* (the only thing the program ever asks of the message) and, for an exception
\* raised "from e", the name of e.
Exc(name, type, text, cause) == [name |-> name, type |-> type, text |-> text, cause |-> cause]
NoError == Exc(None, None, {}, None)

\* what the backend call can raise, by the category the design gives it
ConnectivityErrors ==
    {Exc("read_timeout", "ReadTimeoutError", {"timeout"}, None),
     Exc("connect_timeout", "ConnectTimeoutError", {"timeout"}, None),
     Exc("endpoint_unreachable", "EndpointConnectionError", {}, None),
     Exc("urllib3_read_timeout", "Urllib3ReadTimeoutError", {"read timed out", "timeout", "connection"}, None)}
TransientErrors ==
    {Exc("throttled", "Exception", {"throttling"}, None),
     Exc("model_stream_error", "Exception", {"modelstreamerrorexception"}, None),
     Exc("pool_exhausted", "Exception", {"connection pool", "connection"}, None)}
UnclassifiedErrors ==
    {Exc("validation", "Exception", {}, None),
     Exc("access_denied", "Exception", {"unavailable"}, None),
     Exc("http_503", "Exception", {"service temporarily unavailable", "unavailable"}, None)}
RetryableErrors == ConnectivityErrors \cup TransientErrors
BackendErrors == RetryableErrors \cup UnclassifiedErrors

\* response.metrics as the backend reports it: the attribute may be missing,
\* and so may accumulated_usage, its inputTokens and outputTokens keys and
\* tool_metrics (tool name and call_count, in the order of the dict).
Usage(hasInput, input, hasOutput, output) ==
    [has_input |-> hasInput, input |-> input, has_output |-> hasOutput, output |-> output]
NoUsage == Usage(FALSE, 0, FALSE, 0)
ToolMetric(name, call_count) == [name |-> name, call_count |-> call_count]
Metrics(present, hasUsage, usage, hasTools, tool_metrics) ==
    [present |-> present, has_usage |-> hasUsage, usage |-> usage,
     has_tools |-> hasTools, tool_metrics |-> tool_metrics]
NoMetrics == Metrics(FALSE, FALSE, NoUsage, FALSE, <<>>)
ReportedMetrics(input, output, tool_metrics) ==
    Metrics(TRUE, TRUE, Usage(TRUE, input, TRUE, output), TRUE, tool_metrics)

\* what a backend call returns: None stands for "no response object"
ResponseWith(content, metrics) == [is_none |-> FALSE, content |-> content, metrics |-> metrics]
Response(content) ==
    ResponseWith(content, ReportedMetrics(10, 20, <<ToolMetric("glue", 1)>>))
NoResponse == [is_none |-> TRUE, content |-> EmptyStr, metrics |-> NoMetrics]
Responses == {Response(<<"b">>)}

\* the responses of the backend stub of the metrics session: two that report
\* everything, one without the metrics attribute, one without
\* accumulated_usage, one whose accumulated_usage lacks the token keys and one
\* that lacks outputTokens only
MetricResponses ==
    {Response(<<"b">>),
     ResponseWith(<<"b">>, ReportedMetrics(5, 7, <<>>)),
     ResponseWith(<<"b">>, NoMetrics),
     ResponseWith(<<"b">>, Metrics(TRUE, FALSE, NoUsage, TRUE,
                                   <<ToolMetric("athena", 2), ToolMetric("glue", 1)>>)),
     ResponseWith(<<"b">>, Metrics(TRUE, TRUE, NoUsage, FALSE, <<>>)),
     ResponseWith(<<"b">>, Metrics(TRUE, TRUE, Usage(TRUE, 5, FALSE, 0), FALSE, <<>>))}

\* ------------------------------------------------- call_agent_with_retry
\* except (ReadTimeoutError, ConnectTimeoutError, EndpointConnectionError,
\*         Urllib3ReadTimeoutError)
ConnectionErrorTypes ==
    {"ReadTimeoutError", "ConnectTimeoutError", "EndpointConnectionError", "Urllib3ReadTimeoutError"}
IsConnectionError(e) == e.type \in ConnectionErrorTypes

\* the substrings of str(e).lower() that make an error retryable
RetryablePhrases ==
    {"modelstreamerrorexception", "throttling", "timeout", "unexpected error",
     "read timed out", "connection pool", "awshttpsconnectionpool"}

\* mutant: every error is taken for a retryable one
IsRetryableTextAlways(text) == TRUE

\* mutant: no message makes an error retryable
IsRetryableTextNever(text) == FALSE

IsRetryableText(text) == text \cap RetryablePhrases # {}

\* for attempt in range(max_retries): the loop body runs for this index
LoopContinues(attempt, max_retries) == attempt < max_retries

\* mutant: the loop index does not advance
NextAttemptStuck(attempt) == attempt

\* for attempt in range(max_retries): the next index
NextAttempt(attempt) == attempt + 1

\* mutant: the last attempt is taken to have a retry left
HasAttemptsLeftOffByOne(attempt, max_retries) == attempt < max_retries

\* if attempt < max_retries - 1
HasAttemptsLeft(attempt, max_retries) == attempt < max_retries - 1

\* mutant: the delay grows by a fixed step
NextDelayLinear(retry_delay) == retry_delay + 2

\* retry_delay *= 2
NextDelay(retry_delay) == retry_delay * 2

\* raise Exception("Unable to connect to AWS Bedrock service after multiple
\* attempts. Please check your internet connection and try again.") from e
ConnectExhausted(e) ==
    Exc("unable_to_connect", "Exception", {"unable to connect to aws bedrock", "connection"}, e.name)

\* mutant: a transient failure on the last attempt is reported as a connection failure
ServiceExhaustedAsConnect(e) == ConnectExhausted(e)

\* raise Exception("Service temporarily unavailable after multiple attempts.
\* Please try again in a few moments.") from e
ServiceExhausted(e) ==
    Exc("service_unavailable", "Exception", {"service temporarily unavailable", "unavailable"}, e.name)

\* st.warning(f"... retrying in {retry_delay} seconds (attempt
\* {attempt+1}/{max_retries})..."): "Connection timeout" in the first except
\* clause, "Temporary service issue" in the second
WarningKinds == {"connection_timeout", "service_issue"}
RetryWarning(kind, delay, attempt_number, budget) ==
    [kind |-> kind, delay |-> delay, attempt |-> attempt_number, of |-> budget]

\* ----------------------------------------------------- ChatHistoryManager
\* ChatHistoryManager.add_message: the turn stored in chat_history (its
\* timestamp is never read by the program)
Message(role, content) == [role |-> role, content |-> content]

\* The roles a stored turn may carry: the chat passes "user" and "assistant";
\* add_message takes any str, and get_context_messages filters the others out.
ContextRoles == {"user", "assistant"}
Roles == ContextRoles \cup {"system"}

\* mutant: the first items of the list are taken instead of the last
SliceLastFromFront(history, size) ==
    SubSeq(history, 1, IF size < Len(history) THEN size ELSE Len(history))

\* history[-size:] in Python: the last size items for size > 0; -0 is 0, so
\* size = 0 gives history[0:], the whole list; a negative size gives
\* history[|size|:], the list without its first |size| items
SliceLast(history, size) ==
    IF size > 0
    THEN SubSeq(history, (IF Len(history) > size THEN Len(history) - size + 1 ELSE 1), Len(history))
    ELSE SubSeq(history, 1 - size, Len(history))

\* [{"text": msg["content"]}] for a str content
TextBlocks(content) == <<[text |-> content]>>

\* if msg["role"] in ["user", "assistant"]
InContext(msg) == msg.role \in ContextRoles

\* {"role": msg["role"], "content": content}
FormatMessage(msg) == [role |-> msg.role, content |-> TextBlocks(msg.content)]

\* the loop of get_context_messages over recent_messages
RECURSIVE FormatMessages(_)
FormatMessages(recent_messages) ==
    IF recent_messages = <<>> THEN <<>>
    ELSE (IF InContext(Head(recent_messages))
          THEN <<FormatMessage(Head(recent_messages))>> ELSE <<>>)
             \o FormatMessages(Tail(recent_messages))

\* ChatHistoryManager.get_context_messages, the window size a parameter
\* (the program's is MAX_CONTEXT_MESSAGES)
GetContextMessages(history, size) == FormatMessages(SliceLast(history, size))

\* the outcome of one get_context_messages call: the size it used and the
\* messages it returned; NoContext before any call
NoContext == [called |-> FALSE, size |-> 0, messages |-> <<>>]
ContextOf(history, size) ==
    [called |-> TRUE, size |-> size, messages |-> GetContextMessages(history, size)]

\* MCPAgentManager: whether self.agent and self.bedrock_agent are set, as
\* __init__ leaves them and after initialize_agent has returned True
Manager(agent, bedrock_agent) == [agent |-> agent, bedrock_agent |-> bedrock_agent]
NewManager == Manager(FALSE, FALSE)
ReadyManager == Manager(TRUE, TRUE)

\* (mutant: the guard looks at bedrock_agent only)
ManagerReadyBedrockOnly(m) == m.bedrock_agent

\* the guard of process_message and process_message_with_streaming passed:
\* not (not self.agent or not self.bedrock_agent)
ManagerReady(m) == ~(~m.agent \/ ~m.bedrock_agent)

\* st.session_state.show_thinking, a dict from the index of a turn in
\* chat_history (from 0) to a bool: the indices it holds and those whose
\* value is True
ThinkingShown(keys, shown) == [keys |-> keys, shown |-> shown]
NoThinkingShown == ThinkingShown({}, {})
IsShown(show, i) == i \in show.shown
\* show_thinking[i] = value
SetShown(show, i, value) ==
    ThinkingShown(show.keys \cup {i},
                  IF value THEN show.shown \cup {i} ELSE show.shown \ {i})
\* render_chat_interface, the loop over chat_history: every assistant turn
\* (each is stored with its thinking text) that has no entry gets the entry
\* False
RenderHistory(history, show) ==
    ThinkingShown(show.keys \cup {i \in 0..(Len(history) - 1) : history[i + 1].role = "assistant"},
                  show.shown)

\* ------------------------------------------------------- _extract_metrics
\* The characters of a decimal numeral; str(n) and int(s) for n >= 0.
Digits == <<"0", "1", "2", "3", "4", "5", "6", "7", "8", "9">>
DigitValues == [c \in {Digits[i] : i \in 1..10} |-> CHOOSE d \in 0..9 : Digits[d + 1] = c]
DigitValue(c) == DigitValues[c]

RECURSIVE FormatInt(_)
FormatInt(n) ==
    IF n < 10 THEN <<Digits[n + 1]>> ELSE FormatInt(n \div 10) \o <<Digits[(n % 10) + 1]>>

RECURSIVE ParseInt(_)
ParseInt(str) ==
    IF Len(str) = 1 THEN DigitValue(str[1])
    ELSE ParseInt(SubSeq(str, 1, Len(str) - 1)) * 10 + DigitValue(str[Len(str)])

\* The text "Input Token: <i>, Output Token: <o>": the two labels are one
\* item each, the numerals, "," and " " are characters.
InputLabel == "Input Token: "
OutputLabel == "Output Token: "
FormatTokens(input, output) ==
    <<InputLabel>> \o FormatInt(input) \o <<",", " ", OutputLabel>> \o FormatInt(output)

\* str.split(sep)[1] and str.split(sep)[0] for a sep that occurs once or,
\* for [0], not at all
Occurs(str, sep) == \E i \in 1..Len(str) : str[i] = sep
FirstPosition(str, sep) ==
    CHOOSE i \in 1..Len(str) : str[i] = sep /\ \A j \in 1..(i - 1) : str[j] # sep
AfterSep(str, sep) == SubSeq(str, FirstPosition(str, sep) + 1, Len(str))
BeforeSep(str, sep) ==
    IF Occurs(str, sep) THEN SubSeq(str, 1, FirstPosition(str, sep) - 1) ELSE str

\* str.strip()
RECURSIVE Strip(_)
Strip(str) ==
    IF str = <<>> THEN str
    ELSE IF Head(str) = " " THEN Strip(Tail(str))
    ELSE IF str[Len(str)] = " " THEN Strip(SubSeq(str, 1, Len(str) - 1))
    ELSE str

\* mutant: the stored output total is read as the input total
ParseInputTokensFromOutput(tokens_str) == ParseInt(Strip(AfterSep(tokens_str, OutputLabel)))

\* int(tokens_str.split("Input Token: ")[1].split(",")[0].strip())
ParseInputTokens(tokens_str) == ParseInt(Strip(BeforeSep(AfterSep(tokens_str, InputLabel), ",")))

\* int(tokens_str.split("Output Token: ")[1].strip())
ParseOutputTokens(tokens_str) == ParseInt(Strip(AfterSep(tokens_str, OutputLabel)))

\* "Input Token" in st.session_state.accumulated_tokens (always a str)
HoldsTokens(tokens_str) == Occurs(tokens_str, InputLabel)

\* mutant: the call's count replaces the total
AddToTotalOverwrites(existing, current) == current

\* total_input = existing_input + input_token (and likewise the output)
AddToTotal(existing, current) == existing + current

\* current_cost = (input_token * 0.000003) + (output_token * 0.000015), in
\* millionths of a dollar
CurrentCost(input_token, output_token) ==
    input_token * PRICE_INPUT_TOKEN + output_token * PRICE_OUTPUT_TOKEN

\* mutant: the number of calls of the tool is left out
ManualCostOfOneCall(call_count) == MANUAL_ENGINEER_COST * MANUAL_API_PREP_TIME

\* manual_cost = (manual_engineer_cost / 60) * ((manual_api_prep_time / 60) *
\* call_count), in 1/3600 of a dollar
ManualCost(call_count) == MANUAL_ENGINEER_COST * MANUAL_API_PREP_TIME * call_count

\* total_manual_cost over response.metrics.tool_metrics
RECURSIVE TotalManualCost(_)
TotalManualCost(tool_metrics) ==
    IF tool_metrics = <<>> THEN 0
    ELSE ManualCost(Head(tool_metrics).call_count) + TotalManualCost(Tail(tool_metrics))

\* The accumulated_* entries of st.session_state as SessionState.initialize
\* sets them.
Accumulated(tokens, cost, manual_cost) ==
    [tokens |-> tokens, cost |-> cost, manual_cost |-> manual_cost]
InitialAccumulated == Accumulated(FormatTokens(0, 0), 0, 0)

\* metrics_dict; "N/A" where nothing was reported (execution_time and the
\* texts of tools_used are formatted from the response and kept out)
NotAvailable == <<"N/A">>
NoCost == [available |-> FALSE, value |-> 0]
Cost(value) == [available |-> TRUE, value |-> value]
MetricsDict(total_tokens, total_cost, has_manual_cost, manual_cost) ==
    [total_tokens |-> total_tokens, total_cost |-> total_cost,
     has_manual_cost |-> has_manual_cost, manual_cost |-> manual_cost]
DefaultMetricsDict == MetricsDict(NotAvailable, NoCost, FALSE, 0)

\* _extract_metrics(response) in a session whose accumulated values are acc:
\* the dict it returns and the accumulated values it leaves, or raised when
\* inputTokens or outputTokens is None (None * 0.000003 is a TypeError, before
\* anything is stored)
ExtractMetrics(response, acc) ==
    LET m == response.metrics
        u == m.usage
        existing_input == IF HoldsTokens(acc.tokens) THEN ParseInputTokens(acc.tokens) ELSE 0
        existing_output == IF HoldsTokens(acc.tokens) THEN ParseOutputTokens(acc.tokens) ELSE 0
        total_manual_cost == IF m.has_tools THEN TotalManualCost(m.tool_metrics) ELSE 0
    IN IF ~m.present
       THEN [raised |-> FALSE, metrics_dict |-> DefaultMetricsDict, acc |-> acc]
       ELSE IF m.has_usage /\ ~(u.has_input /\ u.has_output)
       THEN [raised |-> TRUE, metrics_dict |-> DefaultMetricsDict, acc |-> acc]
       ELSE IF m.has_usage
       THEN [raised |-> FALSE,
             metrics_dict |->
                 MetricsDict(FormatTokens(u.input, u.output),
                             Cost(CurrentCost(u.input, u.output)), TRUE, total_manual_cost),
             acc |->
                 Accumulated(FormatTokens(AddToTotal(existing_input, u.input),
                                          AddToTotal(existing_output, u.output)),
                             acc.cost + CurrentCost(u.input, u.output),
                             acc.manual_cost + total_manual_cost)]
       ELSE [raised |-> FALSE,
             metrics_dict |-> MetricsDict(NotAvailable, NoCost, TRUE, total_manual_cost),
             acc |-> [acc EXCEPT !.manual_cost = @ + total_manual_cost]]

\* --------------------------------- _extract_thinking and _clean_response
\* The "thinking" entry of the dict a turn gives back: the reasoning text
\* with the execution statistics after it, or, from the except clause,
\* "Technical Error Details" with str(e) and the traceback.
Diagnostic(kind, error, thinking) == [kind |-> kind, error |-> error, thinking |-> thinking]
ThinkingReport(thinking) == Diagnostic("report", NoError, thinking)
ErrorDetails(e) == Diagnostic("error", e, EmptyStr)

\* An assembled text is a sequence of items: the two delimiters are one item
\* each, the rest are characters. (No text here holds "#" or a line break,
\* so _sanitize_markdown, which rewrites lines that start with "#", leaves
\* these texts as they are.)
OpenTag == "<thinking>"
CloseTag == "</thinking>"
TextItems == {OpenTag, CloseTag, "a", "b", " "}

\* the first position >= from where item stands in text, 0 if there is none
FirstAt(text, item, from) ==
    IF \E i \in from..Len(text) : text[i] = item
    THEN CHOOSE i \in from..Len(text) : text[i] = item /\ \A j \in from..(i - 1) : text[j] # item
    ELSE 0

\* re.search(r"<thinking>(.*?)</thinking>", content, re.DOTALL): the leftmost
\* "<thinking>" that has a "</thinking>" after it, up to the nearest one
SearchThinking(content) ==
    LET start == FirstAt(content, OpenTag, 1)
        end == IF start = 0 THEN 0 ELSE FirstAt(content, CloseTag, start + 1)
    IN [found |-> end # 0, start |-> start, end |-> end]

\* re.sub(r"\s+", " ", text)
RECURSIVE NormalizeSpace(_)
NormalizeSpace(text) ==
    IF Len(text) < 2 THEN text
    ELSE IF text[1] = " " /\ text[2] = " " THEN NormalizeSpace(Tail(text))
    ELSE <<text[1]>> \o NormalizeSpace(Tail(text))

\* _extract_thinking: group 1 of the first match, stripped, its whitespace
\* normalised; "" without a match
ExtractThinking(content) ==
    LET m == SearchThinking(content) IN
    IF m.found THEN NormalizeSpace(Strip(SubSeq(content, m.start + 1, m.end - 1))) ELSE EmptyStr

\* re.sub(r"<thinking>.*?</thinking>", "", content, flags=re.DOTALL): every
\* match, left to right, is taken out
RECURSIVE RemoveThinking(_)
RemoveThinking(content) ==
    LET m == SearchThinking(content) IN
    IF m.found
    THEN SubSeq(content, 1, m.start - 1) \o RemoveThinking(SubSeq(content, m.end + 1, Len(content)))
    ELSE content

\* _clean_response
CleanResponse(content) == Strip(RemoveThinking(content))

\* what process_message makes of the assembled text final_content: the
\* "content" and the "thinking" of the dict it returns
NoReply == [made |-> FALSE, final_content |-> EmptyStr, content |-> EmptyStr,
            thinking |-> ThinkingReport(EmptyStr)]
ReplyOf(final_content) ==
    [made |-> TRUE, final_content |-> final_content, content |-> CleanResponse(final_content),
     thinking |-> ThinkingReport(ExtractThinking(final_content))]

\* the dict the guard of process_message gives back; each text is one token
NotInitializedReply ==
    [made |-> TRUE, final_content |-> EmptyStr,
     content |-> <<"MSG_AGENT_NOT_INITIALIZED_PLEASE_INITIALIZE">>,
     thinking |-> Diagnostic("fixed", NoError, <<"MSG_AGENT_NOT_INITIALIZED">>)]

\* ----------------------------------------------------- strands-playground
\* The requests of one userId, the prompt each one carries and the reply of
\* the agent stub to it.
PlaygroundRequests == 1..MaxRequests
PromptOf(q) == [i \in 1..q |-> "p"]
ReplyTo(prompt) == <<"b">>

\* a request that has not arrived yet
NewRequest == [pc |-> "idle", messages |-> <<>>, load_failed |-> FALSE]

\* the two messages Agent.__call__ appends to agent.messages
TurnOf(prompt) ==
    <<FormatMessage(Message("user", prompt)), FormatMessage(Message("assistant", ReplyTo(prompt)))>>

\* ------------------------------------------------------------------ state
VARIABLES
    \* one run of call_agent_with_retry (and of the turn around it)
    pc,              \* run -> where it stands: idle, agent, returned, raised, done
    max_retries,     \* run -> the max_retries argument
    initial_delay,   \* run -> the initial_delay argument
    streams,         \* run -> self.streaming and stream_callback
    attempt,         \* run -> the loop index
    retry_delay,     \* run -> the local retry_delay
    last_exception,  \* run -> the local last_exception
    result,          \* run -> how the invocation ended: the response or the exception
    calls,           \* run -> backend calls made so far
    sleeps,          \* run -> the durations passed to time.sleep, in order
    warnings,        \* run -> the notices passed to st.warning, in order
    cancelled,       \* run -> Cancel was pressed while its backend call was in flight
    \* the run's StreamingHandler
    handler,         \* run -> its StreamingHandler
    delivered,       \* run -> the events passed to its callback_handler, in order
    rets,            \* run -> what finalize() returned, call by call, since the last event
    \* st.session_state
    manager,         \* agent_manager: whether its agent and bedrock_agent are set
    initialized,
    is_processing,
    cancel_requested,
    chat_history,
    show_thinking,   \* message index -> whether its statistics are shown
    context,         \* what the last get_context_messages call returned
    accumulated,     \* accumulated_tokens, accumulated_cost, accumulated_manual_cost
    turn_log,        \* the turns that have ended, in order: what the backend reported,
                     \* the reply put together and the reply and metrics given back
    \* the units exercised on their own
    reply,           \* the "content" and "thinking" made of one assembled text
    stored,          \* strands-playground: the messages stored for one userId
    requests         \* strands-playground: request -> where it stands and its agent.messages

retryVars ==
    <<pc, max_retries, initial_delay, streams, attempt, retry_delay, last_exception,
      result, calls, sleeps, warnings, cancelled>>
handlerVars == <<handler, delivered, rets>>
metricsVars == <<accumulated, turn_log>>
sessionVars ==
    <<manager, initialized, is_processing, cancel_requested, chat_history, show_thinking,
      context, metricsVars>>
unitVars == <<reply, stored, requests>>
vars == <<retryVars, handlerVars, sessionVars, unitVars>>

Pending == [kind |-> "pending", resp |-> NoResponse, exc |-> NoError]
Returned(resp) == [kind |-> "returned", resp |-> resp, exc |-> NoError]
Raised(e) == [kind |-> "raised", resp |-> NoResponse, exc |-> e]

\* SessionState.initialize
InitSession ==
    /\ manager = NewManager
    /\ initialized = FALSE
    /\ is_processing = FALSE
    /\ cancel_requested = FALSE
    /\ chat_history = <<>>
    /\ show_thinking = NoThinkingShown
    /\ context = NoContext
    /\ accumulated = InitialAccumulated
    /\ turn_log = <<>>

\* no run has started
InitRuns ==
    /\ pc = [r \in Runs |-> "idle"]
    /\ max_retries = [r \in Runs |-> MAX_RETRIES]
    /\ initial_delay = [r \in Runs |-> INITIAL_RETRY_DELAY]
    /\ streams = [r \in Runs |-> FALSE]
    /\ attempt = [r \in Runs |-> 0]
    /\ retry_delay = [r \in Runs |-> INITIAL_RETRY_DELAY]
    /\ last_exception = [r \in Runs |-> NoError]
    /\ result = [r \in Runs |-> Pending]
    /\ calls = [r \in Runs |-> 0]
    /\ sleeps = [r \in Runs |-> <<>>]
    /\ warnings = [r \in Runs |-> <<>>]
    /\ cancelled = [r \in Runs |-> FALSE]

\* a new session: no message, no run, no handler in use
Init ==
    /\ InitSession
    /\ InitRuns
    /\ handler = [r \in Runs |-> NewHandler]
    /\ delivered = [r \in Runs |-> <<>>]
    /\ rets = [r \in Runs |-> <<>>]
    /\ reply = NoReply
    /\ stored = <<>>
    /\ requests = [q \in PlaygroundRequests |-> NewRequest]

\* ------------------------------------------------------ SpecHandler actions
\* setup_placeholders() on a handler that has seen nothing yet
HSetup ==
    /\ delivered[UnitRun] = <<>>
    /\ rets[UnitRun] = <<>>
    /\ ~handler[UnitRun].message_placeholder
    /\ handler' = [handler EXCEPT ![UnitRun] = SetupPlaceholders(@)]
    /\ UNCHANGED <<delivered, rets, retryVars, sessionVars, unitVars>>

\* callback_handler(**ev)
HCallback ==
    /\ Len(delivered[UnitRun]) < MaxEvents
    /\ \E ev \in Events :
        /\ handler' = [handler EXCEPT ![UnitRun] = CallbackHandler(@, ev)]
        /\ delivered' = [delivered EXCEPT ![UnitRun] = Append(@, ev)]
    /\ rets' = [rets EXCEPT ![UnitRun] = <<>>]
    /\ UNCHANGED <<retryVars, sessionVars, unitVars>>

\* finalize()
HFinalize ==
    /\ Len(rets[UnitRun]) < MaxFinalize
    /\ LET f == Finalize(handler[UnitRun]) IN
        /\ handler' = [handler EXCEPT ![UnitRun] = f.h]
        /\ rets' = [rets EXCEPT ![UnitRun] = Append(@, f.ret)]
    /\ UNCHANGED <<delivered, retryVars, sessionVars, unitVars>>

NextHandler == HSetup \/ HCallback \/ HFinalize

SpecHandler == Init /\ [][NextHandler]_vars

\* -------------------------------------------------------- SpecSink actions
\* callback_handler(**ev) on a handler whose placeholders may raise; whether
\* an exception left the call is kept in rets
HCallbackRaising ==
    /\ Len(delivered[UnitRun]) < MaxSinkEvents
    /\ \E ev \in Events, raising \in SUBSET SinkCalls :
        \E outcome \in {CallbackHandlerRaising(handler[UnitRun], ev, raising)} :
            /\ handler' = [handler EXCEPT ![UnitRun] = outcome.h]
            /\ delivered' = [delivered EXCEPT ![UnitRun] = Append(@, ev)]
            /\ rets' = [rets EXCEPT ![UnitRun] = Append(@, outcome.propagated)]
    /\ UNCHANGED <<retryVars, sessionVars, unitVars>>

NextSink == HSetup \/ HCallbackRaising

SpecSink == Init /\ [][NextSink]_vars

\* ------------------------------------------- call_agent_with_retry actions
\* the max_retries arguments tried: the default, its neighbours, zero and below
Budgets == -1..MaxBudget

\* The head of "for attempt in range(max_retries)" reached by run r with
\* index a: the body starts with the backend call; an exhausted range leaves
\* the loop and the function ends without a return statement (None).
LoopHead(r, a, budget) ==
    IF LoopContinues(a, budget)
    THEN /\ pc' = [pc EXCEPT ![r] = "agent"]
         /\ calls' = [calls EXCEPT ![r] = @ + 1]
         /\ result' = [result EXCEPT ![r] = Pending]
    ELSE /\ pc' = [pc EXCEPT ![r] = "returned"]
         /\ calls' = calls
         /\ result' = [result EXCEPT ![r] = Returned(NoResponse)]

\* call_agent_with_retry(agent, prompt, messages, stream_callback, max_retries,
\* initial_delay) entered by run r: retry_delay = initial_delay,
\* last_exception = None, and the loop is entered
EnterRetry(r, budget, delay, streaming) ==
    /\ max_retries' = [max_retries EXCEPT ![r] = budget]
    /\ initial_delay' = [initial_delay EXCEPT ![r] = delay]
    /\ streams' = [streams EXCEPT ![r] = streaming]
    /\ attempt' = [attempt EXCEPT ![r] = 0]
    /\ retry_delay' = [retry_delay EXCEPT ![r] = delay]
    /\ last_exception' = [last_exception EXCEPT ![r] = NoError]
    /\ sleeps' = [sleeps EXCEPT ![r] = <<>>]
    /\ warnings' = [warnings EXCEPT ![r] = <<>>]
    /\ cancelled' = [cancelled EXCEPT ![r] = FALSE]
    /\ LoopHead(r, 0, budget)

\* a caller invokes call_agent_with_retry with a callback of a fresh handler
\* whose placeholders are set up (streaming) or without one
Call(r) ==
    /\ pc[r] = "idle"
    /\ \E budget \in Budgets, delay \in 1..MaxInitialDelay, streaming \in BOOLEAN :
        /\ EnterRetry(r, budget, delay, streaming)
        /\ handler' = [handler EXCEPT ![r] =
                         IF streaming THEN SetupPlaceholders(NewHandler) ELSE NewHandler]
    /\ UNCHANGED <<delivered, rets, sessionVars, unitVars>>

\* The backend, inside agent(..., callback_handler=stream_callback), reports
\* the events of es to the callback of run r, one call each; without a
\* callback (not streaming) they are not reported.
Stream(r, es) ==
    IF streams[r] /\ es # <<>>
    THEN /\ handler' = [handler EXCEPT ![r] = CallbackHandlerAll(@, es)]
         /\ delivered' = [delivered EXCEPT ![r] = @ \o es]
         /\ rets' = [rets EXCEPT ![r] = <<>>]
    ELSE UNCHANGED handlerVars

\* return agent(...): the call streams its events and returns one of responses
AgentReturnsFrom(r, responses) ==
    /\ pc[r] = "agent"
    /\ \E es \in AttemptStreams : Stream(r, es)
    /\ \E resp \in responses : result' = [result EXCEPT ![r] = Returned(resp)]
    /\ pc' = [pc EXCEPT ![r] = "returned"]
    /\ UNCHANGED <<max_retries, initial_delay, streams, attempt, retry_delay,
                   last_exception, calls, sleeps, warnings, cancelled, sessionVars, unitVars>>

AgentReturns(r) == AgentReturnsFrom(r, Responses)

\* mutant: a retry is made without a notice
WarnSilent(r, kind) == warnings' = warnings

\* st.warning(...) of the given kind, before the sleep
Warn(r, kind) ==
    warnings' = [warnings EXCEPT ![r] =
                    Append(@, RetryWarning(kind, retry_delay[r], attempt[r] + 1, max_retries[r]))]

\* time.sleep(retry_delay); retry_delay *= 2; continue
RetryAfterSleep(r) ==
    /\ sleeps' = [sleeps EXCEPT ![r] = Append(@, retry_delay[r])]
    /\ retry_delay' = [retry_delay EXCEPT ![r] = NextDelay(@)]
    /\ attempt' = [attempt EXCEPT ![r] = NextAttempt(@)]
    /\ LoopHead(r, NextAttempt(attempt[r]), max_retries[r])

\* raise: the invocation ends with exception e
Raise(r, e) ==
    /\ result' = [result EXCEPT ![r] = Raised(e)]
    /\ pc' = [pc EXCEPT ![r] = "raised"]
    /\ UNCHANGED <<sleeps, warnings, retry_delay, attempt, calls>>

\* agent(...) streams its events and raises e: the two except clauses
AgentRaises(r, errors) ==
    /\ pc[r] = "agent"
    /\ \E es \in AttemptStreams : Stream(r, es)
    /\ \E e \in errors :
        /\ last_exception' = [last_exception EXCEPT ![r] = e]
        /\ IF IsConnectionError(e)
           THEN IF HasAttemptsLeft(attempt[r], max_retries[r])
                THEN Warn(r, "connection_timeout") /\ RetryAfterSleep(r)
                ELSE Raise(r, ConnectExhausted(e))
           ELSE IF IsRetryableText(e.text)
                THEN IF HasAttemptsLeft(attempt[r], max_retries[r])
                     THEN Warn(r, "service_issue") /\ RetryAfterSleep(r)
                     ELSE Raise(r, ServiceExhausted(e))
                ELSE Raise(r, e)
    /\ UNCHANGED <<max_retries, initial_delay, streams, cancelled, sessionVars, unitVars>>

NextRetry ==
    \/ Call(UnitRun)
    \/ AgentReturns(UnitRun)
    \/ AgentRaises(UnitRun, BackendErrors)

SpecRetry == Init /\ [][NextRetry]_vars

\* the backend stub that raises a retryable error on every attempt
NextRetryable ==
    \/ Call(UnitRun)
    \/ AgentRaises(UnitRun, RetryableErrors)

\* a backend call ends and the interpreter runs on: no step waits forever
SpecRetryable == Init /\ [][NextRetryable]_vars /\ WF_vars(NextRetryable)


\* ------------------------------------------------------ SpecWindow actions
\* the texts of the stored turns
Contents == {<<"a">>, <<"b">>}
\* the window sizes tried: the program's, small ones, zero and below
WindowSizes == (-1..MaxWindow) \cup {MAX_CONTEXT_MESSAGES}

\* add_message(role, content); a view taken before is of the old history
WAddMessage ==
    /\ Len(chat_history) < MaxHistory
    /\ \E role \in Roles, content \in Contents :
        chat_history' = Append(chat_history, Message(role, content))
    /\ context' = NoContext
    /\ UNCHANGED <<manager, initialized, is_processing, cancel_requested, metricsVars, show_thinking, unitVars, retryVars,
                   handlerVars>>

\* get_context_messages() with the window size set to size
WGetContext ==
    /\ \E size \in WindowSizes : context' = ContextOf(chat_history, size)
    /\ UNCHANGED <<manager, initialized, is_processing, cancel_requested, chat_history,
                   metricsVars, show_thinking, unitVars, retryVars, handlerVars>>

NextWindow == WAddMessage \/ WGetContext

SpecWindow == Init /\ [][NextWindow]_vars

\* ---------------------------------------------------- SpecThinking actions
\* the assembled texts tried
RECURSIVE TextsOfLength(_)
TextsOfLength(n) ==
    IF n = 0 THEN {EmptyStr}
    ELSE {Append(text, item) : text \in TextsOfLength(n - 1), item \in TextItems}
AssembledTexts == UNION {TextsOfLength(n) : n \in 0..MaxText}

\* process_message, lines 162-176, on an assembled text
PostProcess ==
    /\ \E final_content \in AssembledTexts : reply' = ReplyOf(final_content)
    /\ UNCHANGED <<stored, requests, retryVars, handlerVars, sessionVars>>

NextThinking == PostProcess

SpecThinking == Init /\ [][NextThinking]_vars

\* -------------------------------------------------- SpecPlayground actions
\* get_agent_response: StrandsPlaygroundAgent(...) loads the stored messages
PLoad(q) ==
    /\ requests[q].pc = "idle"
    /\ requests' = [requests EXCEPT ![q] =
           [pc |-> "loaded", messages |-> stored, load_failed |-> FALSE]]
    /\ UNCHANGED <<stored, reply, retryVars, handlerVars, sessionVars>>

\* restore_agent_state with the DynamoDB table configured: get_item raises
\* (store unreachable, read error); the except clause logs the error and
\* returns [], and the agent is built with no messages
PLoadFails(q) ==
    /\ requests[q].pc = "idle"
    /\ requests' = [requests EXCEPT ![q] =
           [pc |-> "loaded", messages |-> <<>>, load_failed |-> TRUE]]
    /\ UNCHANGED <<stored, reply, retryVars, handlerVars, sessionVars>>

\* agent(request.prompt) returns: the turn is appended to agent.messages
PRun(q) ==
    /\ requests[q].pc = "loaded"
    /\ requests' = [requests EXCEPT ![q] =
           [@ EXCEPT !.pc = "ran", !.messages = @ \o TurnOf(PromptOf(q))]]
    /\ UNCHANGED <<stored, reply, retryVars, handlerVars, sessionVars>>

\* agent(request.prompt) raises: HTTPException 500, nothing is saved
PFail(q) ==
    /\ requests[q].pc = "loaded"
    /\ requests' = [requests EXCEPT ![q] = [NewRequest EXCEPT !.pc = "failed"]]
    /\ UNCHANGED <<stored, reply, retryVars, handlerVars, sessionVars>>

\* agent.save_agent_state(request.userId): the stored messages are replaced
\* by agent.messages, and the request is answered
PSave(q) ==
    /\ requests[q].pc = "ran"
    /\ stored' = requests[q].messages
    /\ requests' = [requests EXCEPT ![q] = [NewRequest EXCEPT !.pc = "saved"]]
    /\ UNCHANGED <<reply, retryVars, handlerVars, sessionVars>>

\* the endpoint is a plain def: FastAPI runs each request in a thread of its
\* pool, so the requests of one user interleave at their blocking calls
NextPlayground ==
    \E q \in PlaygroundRequests : PLoad(q) \/ PLoadFails(q) \/ PRun(q) \/ PFail(q) \/ PSave(q)

SpecPlayground == Init /\ [][NextPlayground]_vars

\* -------------------------------------------------------- the chat session
\* what the user types (already stripped, never empty)
UserInputs == {<<"a">>}

\* the failures the session's backend stub raises: one of each category
TurnErrors ==
    {e \in BackendErrors : e.name \in {"endpoint_unreachable", "throttled", "validation"}}
\* and with them an unclassified failure whose message holds the words of a
\* fixed reply's condition (the reason phrase of an HTTP 503)
SessionErrors == TurnErrors \cup {e \in BackendErrors : e.name = "http_503"}

\* the fixed replies of a failed turn; each is one token of text
ConnectivityMessage == <<"MSG_TROUBLE_CONNECTING">>
BusyMessage == <<"MSG_TEMPORARILY_BUSY">>
HighDemandMessage == <<"MSG_HIGH_DEMAND">>
UnexpectedMessage == <<"MSG_UNEXPECTED_ERROR">>

\* process_message_with_streaming, except clause: the reply by the phrases of str(e).lower()
UserFriendlyMessage(e) ==
    IF "unable to connect to aws bedrock" \in e.text \/ "connection timeout" \in e.text
    THEN ConnectivityMessage
    ELSE IF "service temporarily unavailable" \in e.text THEN BusyMessage
    ELSE IF "throttling" \in e.text THEN HighDemandMessage
    ELSE UnexpectedMessage

\* render_sidebar: "Initialize Agent" pressed and initialize_agent succeeds
InitializeAgent ==
    /\ ~initialized
    /\ manager' = ReadyManager
    /\ initialized' = TRUE
    /\ UNCHANGED <<is_processing, cancel_requested, chat_history, show_thinking, context,
                   metricsVars, unitVars, retryVars, handlerVars>>

\* render_chat_interface: the button reads "Send" (is_processing is False, the
\* agent is initialized, the input is not blank) and is pressed.
\* _process_user_message sets is_processing and appends the user turn;
\* process_message_with_streaming builds a StreamingHandler, sets up its
\* placeholders, reads the context window and enters call_agent_with_retry
\* with the default arguments.
\* (initialized is set only after initialize_agent has stored the agent, so
\* the "Agent not initialized" branches are not taken from here.)
Submit(r) ==
    /\ ~is_processing
    /\ initialized
    /\ pc[r] = "idle"
    /\ \A s \in Runs : s < r => pc[s] # "idle"
    /\ is_processing' = TRUE
    /\ \E user_input \in UserInputs :
        chat_history' = Append(chat_history, Message("user", user_input))
    /\ context' = ContextOf(chat_history', MAX_CONTEXT_MESSAGES)
    /\ handler' = [handler EXCEPT ![r] = SetupPlaceholders(NewHandler)]
    /\ EnterRetry(r, MAX_RETRIES, INITIAL_RETRY_DELAY, TRUE)
    /\ UNCHANGED <<delivered, rets, manager, initialized, cancel_requested, show_thinking,
                   metricsVars, unitVars>>

\* render_chat_interface: the button reads "Cancel" (is_processing is True) and
\* is pressed: cancel_requested = True, is_processing = False, st.rerun().
\* Nothing else reads cancel_requested; the runs inside call_agent_with_retry
\* go on.
Cancel ==
    /\ is_processing
    /\ cancel_requested' = TRUE
    /\ is_processing' = FALSE
    /\ cancelled' = [r \in Runs |-> cancelled[r] \/ pc[r] = "agent"]
    /\ UNCHANGED <<pc, max_retries, initial_delay, streams, attempt, retry_delay,
                   last_exception, result, calls, sleeps, warnings, manager, initialized,
                   chat_history, show_thinking, context, metricsVars, unitVars, handlerVars>>

\* the TypeError of _extract_metrics (None * 0.000003)
MetricsTypeError == Exc("type_error", "TypeError", {"unsupported operand"}, None)

\* One ended turn: whether the backend call returned, the metrics it reported,
\* the reply put together from the stream or the response, whether
\* _extract_metrics came back, the dict it gave, and the "content" and
\* "thinking" given back.
TurnEntry(returned, reported, final_content, extracted, metrics_dict, content, thinking) ==
    [returned |-> returned, reported |-> reported, final_content |-> final_content,
     extracted |-> extracted, metrics_dict |-> metrics_dict, content |-> content,
     thinking |-> thinking]

\* (mutant: the flag is left as the submission set it)
ResetProcessingSkipped == is_processing' = is_processing

\* _process_user_message, the finally clause: is_processing = False
ResetProcessing == is_processing' = FALSE

\* (mutant: a failed turn is counted as a call without tools)
EndFailedTurnCounted(r) ==
    /\ chat_history' =
           Append(chat_history, Message("assistant", UserFriendlyMessage(result[r].exc)))
    /\ accumulated' = [accumulated EXCEPT !.manual_cost = @ + ManualCost(1)]
    /\ turn_log' = Append(turn_log,
           TurnEntry(FALSE, NoMetrics, EmptyStr, FALSE, DefaultMetricsDict,
                     UserFriendlyMessage(result[r].exc), ErrorDetails(result[r].exc)))

\* the except clause of process_message_with_streaming: the fixed message of
\* the failure and its details are given back; _extract_metrics is not reached
EndFailedTurn(r) ==
    /\ chat_history' =
           Append(chat_history, Message("assistant", UserFriendlyMessage(result[r].exc)))
    /\ accumulated' = accumulated
    /\ turn_log' = Append(turn_log,
           TurnEntry(FALSE, NoMetrics, EmptyStr, FALSE, DefaultMetricsDict,
                     UserFriendlyMessage(result[r].exc), ErrorDetails(result[r].exc)))

\* the try block of process_message_with_streaming after the call returned
EndReturnedTurn(r) ==
    \E metrics_info \in {ExtractMetrics(result[r].resp, accumulated)} :
        LET final_content ==
                IF handler[r].content # EmptyStr THEN Finalize(handler[r]).ret
                ELSE IF result[r].resp.is_none THEN <<"None">>
                ELSE result[r].resp.content
            content ==
                IF metrics_info.raised THEN UserFriendlyMessage(MetricsTypeError)
                ELSE final_content
            thinking ==
                IF metrics_info.raised THEN ErrorDetails(MetricsTypeError)
                ELSE ThinkingReport(EmptyStr)
        IN /\ chat_history' = Append(chat_history, Message("assistant", content))
           /\ accumulated' = metrics_info.acc
           /\ turn_log' = Append(turn_log,
                  TurnEntry(TRUE, result[r].resp.metrics, final_content,
                            ~metrics_info.raised, metrics_info.metrics_dict, content,
                            thinking))

\* process_message_with_streaming after call_agent_with_retry and the rest of
\* _process_user_message: the reply is finalize() when the handler holds text,
\* else response.content, or the fixed message of the failure; it is appended
\* as the assistant turn and the finally clause clears is_processing. After
\* a return _extract_metrics adds the call's tokens and costs to the session's;
\* when it raises, the turn ends like a failed call, with the message for an
\* unexpected error. The locals of the run (the retry state, the handler) end
\* with it.
\* (No text of this model holds a <thinking> segment, a heading or outer
\* blanks, so _clean_response leaves the reply as it is.)
Finish(r) ==
    /\ pc[r] \in {"returned", "raised"}
    /\ IF pc[r] = "raised" THEN EndFailedTurn(r) ELSE EndReturnedTurn(r)
    /\ ResetProcessing
    /\ pc' = [pc EXCEPT ![r] = "done"]
    /\ max_retries' = [max_retries EXCEPT ![r] = MAX_RETRIES]
    /\ initial_delay' = [initial_delay EXCEPT ![r] = INITIAL_RETRY_DELAY]
    /\ streams' = [streams EXCEPT ![r] = FALSE]
    /\ attempt' = [attempt EXCEPT ![r] = 0]
    /\ retry_delay' = [retry_delay EXCEPT ![r] = INITIAL_RETRY_DELAY]
    /\ last_exception' = [last_exception EXCEPT ![r] = NoError]
    /\ result' = [result EXCEPT ![r] = Pending]
    /\ calls' = [calls EXCEPT ![r] = 0]
    /\ sleeps' = [sleeps EXCEPT ![r] = <<>>]
    /\ warnings' = [warnings EXCEPT ![r] = <<>>]
    /\ cancelled' = [cancelled EXCEPT ![r] = FALSE]
    /\ handler' = [handler EXCEPT ![r] = NewHandler]
    /\ delivered' = [delivered EXCEPT ![r] = <<>>]
    /\ rets' = [rets EXCEPT ![r] = <<>>]
    /\ show_thinking' = RenderHistory(chat_history', show_thinking)
    /\ UNCHANGED <<manager, initialized, cancel_requested, context, unitVars>>

\* (mutant: the entries of show_thinking outlive the turns they belong to)
ClearHistoryKeepsThinking ==
    /\ chat_history' = <<>>
    /\ UNCHANGED <<manager, initialized, is_processing, cancel_requested, show_thinking, context,
                   metricsVars, unitVars, retryVars, handlerVars>>

\* render_sidebar: "Clear History" pressed: ChatHistoryManager.clear_history()
\* empties chat_history and show_thinking and the script is run again (there
\* is no turn left for it to render)
ClearHistory ==
    /\ chat_history' = <<>>
    /\ show_thinking' = NoThinkingShown
    /\ UNCHANGED <<manager, initialized, is_processing, cancel_requested, context, metricsVars, unitVars,
                   retryVars, handlerVars>>

\* render_chat_interface: the "Show/Hide Agent Statistics" button of the
\* assistant turn at index i is pressed
ToggleThinking ==
    /\ \E i \in show_thinking.keys :
        show_thinking' = RenderHistory(chat_history, SetShown(show_thinking, i, ~IsShown(show_thinking, i)))
    /\ UNCHANGED <<manager, initialized, is_processing, cancel_requested, chat_history, context,
                   metricsVars, unitVars, retryVars, handlerVars>>

Next ==
    \/ InitializeAgent
    \/ Cancel
    \/ \E r \in Runs :
        \/ Submit(r)
        \/ AgentReturns(r)
        \/ AgentRaises(r, SessionErrors)
        \/ Finish(r)

Spec == Init /\ [][Next]_vars

\* The session of the metrics: turns one after the other (no Cancel), the
\* backend stub returning responses of every metrics shape, and Clear History.
NextMetrics ==
    \/ InitializeAgent
    \/ ClearHistory
    \/ \E r \in Runs :
        \/ Submit(r)
        \/ AgentReturnsFrom(r, MetricResponses)
        \/ AgentRaises(r, TurnErrors)
        \/ Finish(r)

SpecMetrics == Init /\ [][NextMetrics]_vars

\* The session of turns one after the other, the backend stub returning or
\* raising an error of any category.
NextTurns ==
    \/ InitializeAgent
    \/ \E r \in Runs :
        \/ Submit(r)
        \/ AgentReturns(r)
        \/ AgentRaises(r, TurnErrors)
        \/ Finish(r)

\* a step of a turn in flight: its backend call ends or its reply is stored
TurnStep == \E r \in Runs : AgentReturns(r) \/ AgentRaises(r, TurnErrors) \/ Finish(r)

\* a backend call ends (botocore's timeouts bound it) and the interpreter
\* runs on: a turn in flight does not wait forever; the user may stay idle
SpecTurns == Init /\ [][NextTurns]_vars /\ WF_vars(TurnStep)

\* render_sidebar: "Initialize Agent" pressed and initialize_agent raises: in
\* setting up the MCP client, before bedrock_agent is assigned, or in
\* Agent(...), after it; the except clause returns False and initialized
\* stays as it is
InitializeAgentFails ==
    /\ ~initialized
    /\ \E bedrock_agent_assigned \in BOOLEAN :
        manager' = [manager EXCEPT !.bedrock_agent = @ \/ bedrock_agent_assigned]
    /\ UNCHANGED <<initialized, is_processing, cancel_requested, chat_history, show_thinking,
                   context, metricsVars, unitVars, retryVars, handlerVars>>

\* the two entry points of the manager
ManagerMethods == {"process_message", "process_message_with_streaming"}

\* process_message(user_input) or process_message_with_streaming(user_input)
\* called on the manager as it is, by run r while no other call is under way:
\* the guard returns the fixed dict; past it the context window is read and
\* call_agent_with_retry is entered, process_message (without a container)
\* passing no stream_callback
ProcessMessage(r) ==
    /\ \A s \in Runs : pc[s] \in {"idle", "done"}
    /\ pc[r] = "idle"
    /\ \A s \in Runs : s < r => pc[s] # "idle"
    /\ \E method \in ManagerMethods :
        IF ~ManagerReady(manager)
        THEN /\ reply' = NotInitializedReply
             /\ UNCHANGED <<stored, requests, retryVars, handlerVars, sessionVars>>
        ELSE /\ context' = ContextOf(chat_history, MAX_CONTEXT_MESSAGES)
             /\ handler' = [handler EXCEPT ![r] =
                    IF method = "process_message_with_streaming"
                    THEN SetupPlaceholders(NewHandler) ELSE NewHandler]
             /\ EnterRetry(r, MAX_RETRIES, INITIAL_RETRY_DELAY,
                           method = "process_message_with_streaming")
             /\ UNCHANGED <<delivered, rets, manager, initialized, is_processing,
                            cancel_requested, chat_history, show_thinking, metricsVars,
                            unitVars>>

\* The manager called before and after its initialization, which may fail;
\* the caller stores what a call past the guard gives back as
\* _process_user_message does.
NextManager ==
    \/ InitializeAgent
    \/ InitializeAgentFails
    \/ \E r \in Runs :
        \/ ProcessMessage(r)
        \/ AgentReturns(r)
        \/ AgentRaises(r, TurnErrors)
        \/ Finish(r)

SpecManager == Init /\ [][NextManager]_vars

\* The session of Clear History: turns whose backend call returns with its
\* token counts, Cancel, the statistics buttons and Clear History.
ClearResponses == {ResponseWith(<<"b">>, ReportedMetrics(5, 7, <<>>))}
NextClear ==
    \/ InitializeAgent
    \/ ClearHistory
    \/ ToggleThinking
    \/ Cancel
    \/ \E r \in Runs :
        \/ Submit(r)
        \/ AgentReturnsFrom(r, ClearResponses)
        \/ Finish(r)

SpecClear == Init /\ [][NextClear]_vars

\* ==================================================================== claims
Ended(r) == pc[r] \in {"returned", "raised"}
IsExhaustion(e) == e.name \in {"unable_to_connect", "service_unavailable"}

\* C1: for every sequence of backend outcomes and every max_retries >= 1, one
\* call_agent_with_retry invocation makes at most max_retries backend calls.
C1_AttemptsBounded ==
    max_retries[UnitRun] >= 1 => calls[UnitRun] <= max_retries[UnitRun]

\* the whole budget of a call with max_retries > 1 is used and the call has ended
C1_Witness ==
    /\ max_retries[UnitRun] > 1
    /\ calls[UnitRun] = max_retries[UnitRun]
    /\ Ended(UnitRun)

\* C2: with a backend that raises a retryable error on every attempt (and
\* max_retries >= 1), call_agent_with_retry calls the backend exactly
\* max_retries times and then ends by raising the "unavailable" failure: it
\* neither returns a value nor retries forever.
C2_ExhaustsThenRaises ==
    /\ <>Ended(UnitRun)
    /\ [](max_retries[UnitRun] >= 1 /\ Ended(UnitRun) =>
            /\ pc[UnitRun] = "raised"
            /\ calls[UnitRun] = max_retries[UnitRun]
            /\ IsExhaustion(result[UnitRun].exc))
    /\ [](max_retries[UnitRun] >= 1 => calls[UnitRun] <= max_retries[UnitRun])

\* the default budget of three attempts is used up, the last failure an
\* unreachable endpoint, and the "unable to connect" failure is raised
C2_Witness ==
    /\ max_retries[UnitRun] = MAX_RETRIES
    /\ pc[UnitRun] = "raised"
    /\ calls[UnitRun] = MAX_RETRIES
    /\ result[UnitRun].exc.name = "unable_to_connect"
    /\ result[UnitRun].exc.cause = "endpoint_unreachable"

\* C3: the sleep before attempt k (k >= 2) is initial_delay * 2^(k-2), whatever
\* mix of connectivity and transient failures preceded it; there is no sleep
\* before attempt 1 and none after the last attempt.
C3_BackoffDoubles ==
    /\ \A i \in 1..Len(sleeps[UnitRun]) :
        sleeps[UnitRun][i] = initial_delay[UnitRun] * 2 ^ (i - 1)
    /\ pc[UnitRun] = "agent" => Len(sleeps[UnitRun]) = calls[UnitRun] - 1
    /\ Ended(UnitRun) /\ calls[UnitRun] > 0 => Len(sleeps[UnitRun]) = calls[UnitRun] - 1
    /\ calls[UnitRun] = 0 => sleeps[UnitRun] = <<>>

\* the fourth attempt runs after three sleeps, the last failure a transient one
C3_Witness ==
    /\ pc[UnitRun] = "agent"
    /\ calls[UnitRun] = 4
    /\ initial_delay[UnitRun] = MaxInitialDelay
    /\ Len(sleeps[UnitRun]) = 3
    /\ last_exception[UnitRun] \in TransientErrors

\* C4: when an attempt, the first or a later one, fails with an unclassified
\* error, call_agent_with_retry makes no further backend call, does not sleep
\* after that failure and propagates that error unchanged.
C4_UnclassifiedPropagates ==
    last_exception[UnitRun] \in UnclassifiedErrors =>
        /\ pc[UnitRun] = "raised"
        /\ result[UnitRun].exc = last_exception[UnitRun]
        /\ calls[UnitRun] = attempt[UnitRun] + 1
        /\ Len(sleeps[UnitRun]) = attempt[UnitRun]

\* an unclassified error on the second attempt, after one retry
C4_Witness ==
    /\ last_exception[UnitRun] \in UnclassifiedErrors
    /\ pc[UnitRun] = "raised"
    /\ calls[UnitRun] = 2
    /\ max_retries[UnitRun] > 2

\* C5: a streaming call is never retried after the user has requested
\* cancellation: once Cancel is pressed during an in-flight call, a retryable
\* error the backend reports afterwards leads to no further backend attempt.
C5_NoRetryAfterCancel ==
    [][\A r \in Runs : cancelled[r] => calls'[r] <= calls[r]]_vars

\* C6: in every reachable state of one session at most one backend call is in
\* flight, also after the user has pressed Cancel and submitted again.
C6_SingleFlight ==
    Cardinality({r \in Runs : pc[r] = "agent"}) <= 1

\* the text payloads of the events in es, concatenated in arrival order
RECURSIVE ConcatData(_)
ConcatData(es) ==
    IF es = <<>> THEN EmptyStr
    ELSE ConcatData(SubSeq(es, 1, Len(es) - 1))
             \o (IF es[Len(es)].has_data THEN es[Len(es)].data ELSE EmptyStr)

\* positions of the completion events among the delivered events
Completions(es) == {i \in 1..Len(es) : es[i].complete}
EndsInCompletion(es) == es # <<>> /\ es[Len(es)].complete
DataEvents(es) == {i \in 1..Len(es) : es[i].has_data /\ es[i].data # EmptyStr}

\* C7: for every event sequence delivered to one StreamingHandler that ends in a
\* completion event, finalize() returns exactly the concatenation, in arrival
\* order, of the payloads of all text-delta events, however tool-start,
\* completion and lifecycle events are interleaved.
C7_FinalizeIsConcatenation ==
    EndsInCompletion(delivered[UnitRun]) =>
        /\ Finalize(handler[UnitRun]).ret = ConcatData(delivered[UnitRun])
        /\ \A i \in 1..Len(rets[UnitRun]) : rets[UnitRun][i] = ConcatData(delivered[UnitRun])

\* two different deltas with a tool start between them, then completion, then finalize()
C7_Witness ==
    LET es == delivered[UnitRun] IN
    /\ EndsInCompletion(es)
    /\ \E i, j, k \in 1..Len(es) :
        /\ i < j /\ j < k
        /\ es[i].has_data /\ es[k].has_data /\ es[i].data # es[k].data
        /\ es[i].data # EmptyStr /\ es[k].data # EmptyStr
        /\ es[j].tool # None
    /\ rets[UnitRun] # <<>>

\* the buffer as it stood when the first completion event had been handled
ContentAtCompletion(es) ==
    LET first == CHOOSE i \in Completions(es) : \A j \in Completions(es) : i <= j
    IN ConcatData(SubSeq(es, 1, first))

\* C8: after the completion event has been observed the assembler accepts no
\* further events: a text delta delivered after it leaves the content buffer,
\* and what finalize() returns, unchanged.
C8_NoEventAfterCompletion ==
    Completions(delivered[UnitRun]) # {} =>
        /\ handler[UnitRun].content = ContentAtCompletion(delivered[UnitRun])
        /\ Finalize(handler[UnitRun]).ret = ContentAtCompletion(delivered[UnitRun])

\* C9: finalize() is idempotent: called twice in a row after the completion
\* event, with no event in between, it returns the same content both times and
\* changes neither the content buffer nor the current tool nor the tool counter.
C9_FinalizeIdempotent ==
    /\ [](Completions(delivered[UnitRun]) # {} =>
            \A i, j \in 1..Len(rets[UnitRun]) : rets[UnitRun][i] = rets[UnitRun][j])
    /\ [][(Completions(delivered[UnitRun]) # {} /\ Len(rets'[UnitRun]) > Len(rets[UnitRun])) =>
            /\ handler'[UnitRun].content = handler[UnitRun].content
            /\ handler'[UnitRun].current_tool = handler[UnitRun].current_tool
            /\ handler'[UnitRun].tool_count = handler[UnitRun].tool_count]_vars

\* finalize() called twice in a row after completion, on a buffer that is not empty
C9_Witness ==
    /\ Completions(delivered[UnitRun]) # {}
    /\ Len(rets[UnitRun]) >= 2
    /\ handler[UnitRun].content # EmptyStr
    /\ handler[UnitRun].tool_count > 0

\* C10: finalize() may be called before any completion event has arrived; it
\* then returns exactly the concatenation of the text deltas received so far.
C10_FinalizeBeforeCompletion ==
    Completions(delivered[UnitRun]) = {} =>
        /\ Finalize(handler[UnitRun]).ret = ConcatData(delivered[UnitRun])
        /\ \A i \in 1..Len(rets[UnitRun]) : rets[UnitRun][i] = ConcatData(delivered[UnitRun])

\* finalize() after deltas but no completion event, a tool still running
C10_Witness ==
    /\ Completions(delivered[UnitRun]) = {}
    /\ Cardinality(DataEvents(delivered[UnitRun])) >= 2
    /\ handler[UnitRun].current_tool # None
    /\ rets[UnitRun] # <<>>
    /\ rets[UnitRun][1] # EmptyStr

\* the event of the callback_handler call a step makes, if it makes one
Delivers(r) == Len(delivered'[r]) = Len(delivered[r]) + 1
LastEvent(es) == es[Len(es)]

\* C11: on a tool-start event carrying name n, the tool counter goes up by
\* exactly one and the current tool becomes n if and only if n differs from the
\* active tool; a tool-start event repeating the active tool's name changes
\* neither the counter nor the current tool.
C11_ToolStartCounts ==
    [][Delivers(UnitRun) =>
        LET ev == LastEvent(delivered'[UnitRun])
            h == handler[UnitRun]
            after == handler'[UnitRun]
        IN (ev.tool # None /\ ~ev.complete) =>
            IF ev.tool # h.current_tool
            THEN after.tool_count = h.tool_count + 1 /\ after.current_tool = ev.tool
            ELSE after.tool_count = h.tool_count /\ after.current_tool = h.current_tool]_vars

\* three tool-start events, the second repeating the first: two tools counted
C11_Witness ==
    LET es == delivered[UnitRun] IN
    /\ Len(es) >= 3
    /\ es[1].tool # None /\ es[2].tool = es[1].tool
    /\ es[3].tool # None /\ es[3].tool # es[1].tool
    /\ handler[UnitRun].tool_count = 2
    /\ handler[UnitRun].current_tool = es[3].tool

\* C12: both a tool-completion event and a lifecycle-marker event clear the
\* current-tool marker: after either kind of event the current tool is none.
C12_CompletionAndLifecycleClearTool ==
    delivered[UnitRun] # <<>> =>
        LET ev == LastEvent(delivered[UnitRun]) IN
        (ev.complete \/ ev.life # None) => handler[UnitRun].current_tool = None

\* C12 as amended: a completion event clears the current-tool marker; a
\* lifecycle-marker event changes nothing of the handler, so the tool that was
\* active before it is still the current tool after it.
C12_OnlyCompletionClearsTool ==
    [][Delivers(UnitRun) =>
        LET ev == LastEvent(delivered'[UnitRun]) IN
        /\ ev.complete => handler'[UnitRun].current_tool = None
        /\ ev.life # None => handler'[UnitRun] = handler[UnitRun]]_vars

\* a tool is started, a lifecycle event leaves it active, a completion clears it
C12_Witness ==
    LET es == delivered[UnitRun] IN
    /\ Len(es) >= 3
    /\ es[1].tool # None /\ es[2].life # None /\ es[3].complete
    /\ CallbackHandlerAll(NewHandler, SubSeq(es, 1, 2)).current_tool = es[1].tool
    /\ handler[UnitRun].current_tool = None
    /\ handler[UnitRun].tool_count = 1

\* C13: only text-delta events change the content buffer: a tool-start, a
\* completion or a lifecycle event that carries no text leaves it unchanged.
C13_OnlyDeltasChangeContent ==
    [][Delivers(UnitRun) =>
        (~LastEvent(delivered'[UnitRun]).has_data =>
            handler'[UnitRun].content = handler[UnitRun].content)]_vars

\* a delta, then a tool start, a lifecycle event and a completion: the buffer
\* still holds the delta alone
C13_Witness ==
    LET es == delivered[UnitRun] IN
    /\ Len(es) = 4
    /\ es[1].has_data /\ es[1].data # EmptyStr
    /\ es[2].tool # None /\ ~es[2].has_data
    /\ es[3].life # None
    /\ es[4].complete /\ ~es[4].has_data
    /\ handler[UnitRun].content = es[1].data
    /\ handler[UnitRun].tool_count = 1

\* the handler that has processed es with no placeholder set up, and the one
\* whose placeholders were set up first
Headless(es) == CallbackHandlerAll(NewHandler, es)
Attached(es) == CallbackHandlerAll(SetupPlaceholders(NewHandler), es)
\* the handler of the other kind that has processed the events h has
Twin(h, es) == IF h.message_placeholder THEN Headless(es) ELSE Attached(es)

\* C14: for every event sequence, a handler without placeholders ends with the
\* same content buffer, tool counter and finalize() result as one with
\* placeholders that processes the same events.
C14_HeadlessEquivalence ==
    \A twin \in {Twin(handler[UnitRun], delivered[UnitRun])} :
        /\ twin.message_placeholder # handler[UnitRun].message_placeholder
        /\ twin.content = handler[UnitRun].content
        /\ twin.tool_count = handler[UnitRun].tool_count
        /\ twin.current_tool = handler[UnitRun].current_tool
        /\ Finalize(twin).ret = Finalize(handler[UnitRun]).ret
        /\ \A i \in 1..Len(rets[UnitRun]) : rets[UnitRun][i] = Finalize(twin).ret

\* a handler with placeholders has drawn text and a tool and was finalized,
\* while its headless twin has drawn nothing
C14_Witness ==
    LET es == delivered[UnitRun] IN
    /\ handler[UnitRun].message_placeholder
    /\ handler[UnitRun].message_view = MessageShown(handler[UnitRun].content, FALSE)
    /\ handler[UnitRun].content # EmptyStr
    /\ handler[UnitRun].tool_count = 2
    /\ rets[UnitRun] # <<>>
    /\ Headless(es).message_view = NothingShown
    /\ Attached(SubSeq(es, 1, Len(es) - 1)).tool_view.status = "running"

\* the turns of a history that take part in the context, in order
ContextTurns(history) == SelectSeq(history, LAMBDA msg : msg.role \in ContextRoles)
Min(a, b) == IF a < b THEN a ELSE b

\* C15: for every history H and window size N (a size: N >= 0), the number of
\* messages get_context_messages returns equals min(N, number of turns in H
\* whose role is user or assistant).
C15_WindowLength ==
    context.called /\ context.size >= 0 =>
        Len(context.messages) = Min(context.size, Len(ContextTurns(chat_history)))

\* C16: the view returned by get_context_messages holds only user and
\* assistant turns, in the order of the history, each with the role and content
\* of its history turn, and they are the newest such turns of the history: the
\* view is the formatted suffix of the history's user/assistant turns.
C16_ViewIsSuffixOfContextTurns ==
    context.called =>
        LET turns == ContextTurns(chat_history)
            n == Len(context.messages)
        IN /\ n <= Len(turns)
           /\ \A k \in 1..n :
               /\ context.messages[k].role = turns[Len(turns) - n + k].role
               /\ context.messages[k].role \in ContextRoles
               /\ context.messages[k].content = <<[text |-> turns[Len(turns) - n + k].content]>>

\* a window of two over a history of four that holds a system turn and two
\* different texts: older user/assistant turns are left out
C16_Witness ==
    /\ context.called
    /\ context.size = 2
    /\ Len(chat_history) = 4
    /\ Len(ContextTurns(chat_history)) = 3
    /\ Len(context.messages) = 2
    /\ context.messages[1].content # context.messages[2].content
    /\ context.messages[1].role # context.messages[2].role

\* C17: with a window size <= 0 the context window is empty for every history.
C17_NonPositiveWindowEmpty ==
    context.called /\ context.size <= 0 => context.messages = <<>>

\* a turn whose backend call returned and whose metrics were extracted
Successful(entry) == entry.returned /\ entry.extracted
\* the backend reported both token counts for the turn
TokensReported(reported) ==
    /\ reported.present /\ reported.has_usage
    /\ reported.usage.has_input /\ reported.usage.has_output

\* the sums, over the turns of a log, of the token counts the backend reported
\* and of the costs the turns' metrics state
RECURSIVE SumInput(_)
SumInput(log) ==
    IF log = <<>> THEN 0
    ELSE SumInput(Tail(log))
             + (IF TokensReported(Head(log).reported) THEN Head(log).reported.usage.input ELSE 0)
RECURSIVE SumOutput(_)
SumOutput(log) ==
    IF log = <<>> THEN 0
    ELSE SumOutput(Tail(log))
             + (IF TokensReported(Head(log).reported) THEN Head(log).reported.usage.output ELSE 0)
RECURSIVE SumCost(_)
SumCost(log) ==
    IF log = <<>> THEN 0
    ELSE SumCost(Tail(log))
             + (IF Head(log).metrics_dict.total_cost.available
                THEN Head(log).metrics_dict.total_cost.value ELSE 0)

\* C18: after any sequence of successful turns the session's accumulated input
\* and output token totals are the sums of the turns' per-call counts, and the
\* accumulated cost is the sum of the per-call costs.
C18_TotalsAreSums ==
    (\A i \in 1..Len(turn_log) : Successful(turn_log[i])) =>
        /\ accumulated.tokens = FormatTokens(SumInput(turn_log), SumOutput(turn_log))
        /\ accumulated.cost = SumCost(turn_log)

\* calls with {10, 20} and {5, 7} tokens: input 15, output 27
C18_Witness ==
    /\ Len(turn_log) = 2
    /\ \A i \in 1..2 : Successful(turn_log[i]) /\ TokensReported(turn_log[i].reported)
    /\ turn_log[1].reported.usage = Usage(TRUE, 10, TRUE, 20)
    /\ turn_log[2].reported.usage = Usage(TRUE, 5, TRUE, 7)
    /\ accumulated.tokens = <<InputLabel, "1", "5", ",", " ", OutputLabel, "2", "7">>
    /\ accumulated.cost = 450

\* a step of Clear History
ClearStep == chat_history' = <<>> /\ UNCHANGED <<is_processing, retryVars, handlerVars>>

\* C19: the session's accumulated input tokens, output tokens, cost and manual
\* cost never decrease from one step to the next, whatever turns are made, and
\* no step other than an explicit clear sets them back to their initial values.
C19_CountersNeverDecrease ==
    [][accumulated' # accumulated =>
        /\ ParseInputTokens(accumulated'.tokens) >= ParseInputTokens(accumulated.tokens)
        /\ ParseOutputTokens(accumulated'.tokens) >= ParseOutputTokens(accumulated.tokens)
        /\ accumulated'.cost >= accumulated.cost
        /\ accumulated'.manual_cost >= accumulated.manual_cost
        /\ accumulated' = InitialAccumulated => ClearStep]_vars

\* the counters have grown over a successful and a failed turn, and the
\* history has been cleared since
C19_Witness ==
    /\ Len(turn_log) = 2
    /\ Successful(turn_log[1]) /\ ~turn_log[2].returned
    /\ ParseInputTokens(accumulated.tokens) > 0
    /\ ParseOutputTokens(accumulated.tokens) > 0
    /\ accumulated.cost > 0
    /\ accumulated.manual_cost > 0
    /\ chat_history = <<>>

\* C20: when the backend's response reports no token counts (no metrics, no
\* accumulated_usage, or an accumulated_usage without inputTokens or
\* outputTokens), the turn's metrics give the token counts as "N/A" and the
\* turn still returns the reply put together.
C20_MissingTokensAreNotAvailable ==
    \A i \in 1..Len(turn_log) :
        (turn_log[i].returned /\ ~TokensReported(turn_log[i].reported)) =>
            /\ turn_log[i].extracted
            /\ turn_log[i].metrics_dict.total_tokens = NotAvailable
            /\ turn_log[i].content = turn_log[i].final_content

\* C21: when retries are exhausted, the error call_agent_with_retry raises has
\* the last underlying error as its cause and carries the category of that
\* last failure, whatever the earlier failures were: the "Unable to connect"
\* error after a connect/read timeout or an unreachable endpoint, the "Service
\* temporarily unavailable" error after a transient-service failure.
C21_ExhaustionCarriesLastCategory ==
    (pc[UnitRun] = "raised" /\ last_exception[UnitRun] \in RetryableErrors) =>
        LET e == result[UnitRun].exc
            last == last_exception[UnitRun]
        IN /\ IsExhaustion(e)
           /\ e.cause = last.name
           /\ last \in ConnectivityErrors =>
                  e.name = "unable_to_connect" /\ "unable to connect to aws bedrock" \in e.text
           /\ last \in TransientErrors =>
                  e.name = "service_unavailable" /\ "service temporarily unavailable" \in e.text

\* two connection timeouts were retried and the last attempt was throttled:
\* the error raised is the "Service temporarily unavailable" one
C21_Witness ==
    /\ pc[UnitRun] = "raised"
    /\ Len(warnings[UnitRun]) = 2
    /\ \A i \in 1..2 : warnings[UnitRun][i].kind = "connection_timeout"
    /\ last_exception[UnitRun].name = "throttled"
    /\ result[UnitRun].exc.name = "service_unavailable"
    /\ result[UnitRun].exc.cause = "throttled"

\* C22: a retryable failure never leaves call_agent_with_retry as itself:
\* every error that leaves it is the exhaustion error or an unclassified error
\* of the backend, unchanged.
C22_RetryableNeverEscapes ==
    pc[UnitRun] = "raised" =>
        /\ result[UnitRun].exc \notin RetryableErrors
        /\ \/ IsExhaustion(result[UnitRun].exc)
           \/ /\ result[UnitRun].exc \in UnclassifiedErrors
              /\ result[UnitRun].exc = last_exception[UnitRun]

\* a budget of one attempt: the first transient failure is the last one and
\* leaves as the exhaustion error
C22_Witness ==
    /\ pc[UnitRun] = "raised"
    /\ max_retries[UnitRun] = 1
    /\ calls[UnitRun] = 1
    /\ last_exception[UnitRun] \in TransientErrors
    /\ IsExhaustion(result[UnitRun].exc)

\* the user-facing category of a failure that ends a turn, and its fixed reply
ConnectivityNames == {e.name : e \in ConnectivityErrors}
TransientNames == {e.name : e \in TransientErrors}
FailureCategory(e) ==
    IF IsExhaustion(e) /\ e.cause \in ConnectivityNames THEN "connectivity"
    ELSE IF IsExhaustion(e) /\ e.cause \in TransientNames THEN "overloaded"
    ELSE "unknown"
CategoryMessage(category) ==
    IF category = "connectivity" THEN ConnectivityMessage
    ELSE IF category = "overloaded" THEN BusyMessage
    ELSE UnexpectedMessage
\* the turns of the log that ended in the except clause
FailedTurns == {i \in 1..Len(turn_log) : turn_log[i].thinking.kind = "error"}

\* C23: a turn never raises: every failure that leaves call_agent_with_retry is
\* given the one fixed reply of its category: the connectivity message after
\* exhaustion on connectivity failures, the busy message after exhaustion on
\* transient-service failures, the unknown-error message for any unclassified
\* failure.
C23_ReplyByCategory ==
    \A i \in FailedTurns :
        turn_log[i].content = CategoryMessage(FailureCategory(turn_log[i].thinking.error))

\* C24: on a failed turn the reply depends only on the failure category: two
\* failures of the same category with different exception messages give the
\* same "content"; the exception's text is in "thinking" only.
C24_ContentDependsOnCategoryOnly ==
    \A i, j \in FailedTurns :
        FailureCategory(turn_log[i].thinking.error) = FailureCategory(turn_log[j].thinking.error)
            => turn_log[i].content = turn_log[j].content

\* the texts of the segments _clean_response takes out of content, in order
RECURSIVE RemovedSegments(_)
RemovedSegments(content) ==
    LET m == SearchThinking(content) IN
    IF m.found
    THEN <<SubSeq(content, m.start + 1, m.end - 1)>>
             \o RemovedSegments(SubSeq(content, m.end + 1, Len(content)))
    ELSE <<>>
\* part stands in whole as a run of consecutive items
IsInfix(part, whole) ==
    \E i \in 0..(Len(whole) - Len(part)) : SubSeq(whole, i + 1, i + Len(part)) = part

\* C25: for every assembled text, also one with more than one
\* <thinking>...</thinking> segment, no delimited segment is left in the reply
\* and the text of every segment taken out (stripped, its whitespace
\* normalised) is in the diagnostic output.
C25_RemovedSegmentsAreRetained ==
    reply.made =>
        /\ ~SearchThinking(reply.content).found
        /\ \A k \in 1..Len(RemovedSegments(reply.final_content)) :
            IsInfix(NormalizeSpace(Strip(RemovedSegments(reply.final_content)[k])),
                    reply.thinking.thinking)

\* C26: the stored history of one user is append-only under concurrency: when
\* two requests of the same userId have both been answered, the stored history
\* holds the turns of both, however their steps interleaved.
C26_StoredHistoryKeepsBothTurns ==
    \A q1, q2 \in PlaygroundRequests :
        (q1 # q2 /\ requests[q1].pc = "saved" /\ requests[q2].pc = "saved") =>
            \A q \in {q1, q2} : IsInfix(TurnOf(PromptOf(q)), stored)

\* (manual_engineer_cost / 60) * (manual_api_prep_time / 60) * call_count summed
\* over the tools a turn's backend call reported, in 1/3600 of a dollar
RECURSIVE SumOverTools(_)
SumOverTools(tool_metrics) ==
    IF tool_metrics = <<>> THEN 0
    ELSE 100 * 30 * Head(tool_metrics).call_count + SumOverTools(Tail(tool_metrics))
ExpectedManualCost(reported) ==
    IF reported.present /\ reported.has_tools THEN SumOverTools(reported.tool_metrics) ELSE 0
RECURSIVE SumManualCost(_)
SumManualCost(log) ==
    IF log = <<>> THEN 0
    ELSE SumManualCost(Tail(log))
             + (IF Successful(Head(log)) THEN ExpectedManualCost(Head(log).reported) ELSE 0)

EndedInSuccessOrExhaustion(r) ==
    \/ pc[r] = "returned" /\ ~result[r].resp.is_none
    \/ pc[r] = "raised" /\ IsExhaustion(result[r].exc)

\* C28: call_agent_with_retry emits exactly one progress notice, stating the
\* current attempt number and the delay about to be slept, before each retry
\* sleep, and none on success, on a non-retryable failure or on the final
\* exhausted attempt: notices = backend calls - 1 when the call ends in success
\* or exhaustion.
C28_OneNoticePerRetry ==
    /\ [](/\ Len(warnings[UnitRun]) = Len(sleeps[UnitRun])
          /\ \A i \in 1..Len(warnings[UnitRun]) :
              /\ warnings[UnitRun][i].delay = sleeps[UnitRun][i]
              /\ warnings[UnitRun][i].attempt = i
              /\ warnings[UnitRun][i].of = max_retries[UnitRun]
          /\ EndedInSuccessOrExhaustion(UnitRun) =>
                Len(warnings[UnitRun]) = calls[UnitRun] - 1)
    /\ [][/\ (pc[UnitRun] = "agent" /\ Ended(UnitRun)') => warnings'[UnitRun] = warnings[UnitRun]
          /\ (pc[UnitRun] = "agent" /\ pc'[UnitRun] = "agent") =>
                /\ Len(warnings'[UnitRun]) = Len(warnings[UnitRun]) + 1
                /\ LastEvent(warnings'[UnitRun]).delay = retry_delay[UnitRun]
                /\ LastEvent(warnings'[UnitRun]).attempt = attempt[UnitRun] + 1
                /\ LastEvent(sleeps'[UnitRun]) = retry_delay[UnitRun]]_vars

\* three attempts that all failed: a notice of each kind before the two
\* sleeps, with delays d and 2d, and none for the last failure
C28_Witness ==
    /\ pc[UnitRun] = "raised"
    /\ IsExhaustion(result[UnitRun].exc)
    /\ calls[UnitRun] = 3
    /\ initial_delay[UnitRun] = MaxInitialDelay
    /\ warnings[UnitRun] =
           <<RetryWarning("connection_timeout", MaxInitialDelay, 1, 3),
             RetryWarning("service_issue", 2 * MaxInitialDelay, 2, 3)>>

\* C29: every invocation of call_agent_with_retry, for every max_retries
\* including 0 and negative values, ends by returning a response a backend
\* call produced or by raising: it never returns without a backend response.
C29_ReturnsOnlyBackendResponse ==
    pc[UnitRun] = "returned" => (~result[UnitRun].resp.is_none /\ calls[UnitRun] >= 1)

\* C30: when a streaming attempt delivers text deltas and fails with a
\* retryable error and a later attempt of the same call succeeds, finalize()
\* returns the text deltas of the successful attempt only.
C30_ReplyOfSuccessfulAttemptOnly ==
    [][(pc[UnitRun] = "agent" /\ pc'[UnitRun] = "returned" /\ streams[UnitRun]) =>
        Finalize(handler'[UnitRun]).ret =
            ConcatData(SubSeq(delivered'[UnitRun], Len(delivered[UnitRun]) + 1,
                              Len(delivered'[UnitRun])))]_vars

\* the step in which run r's submission reads its history view and enters
\* the backend call
Submits(r) == pc[r] = "idle" /\ pc'[r] = "agent"

\* part is the end of whole
IsSuffix(part, whole) ==
    /\ Len(part) <= Len(whole)
    /\ part = SubSeq(whole, Len(whole) - Len(part) + 1, Len(whole))

\* C31: when the backend is invoked for a user submission, the history view
\* passed next to the prompt holds only turns that precede the submission:
\* it is the end of the history as it was before the submission, so the
\* current user input is not its last element.
C31_ViewPrecedesSubmission ==
    [][(\E r \in Runs : Submits(r)) =>
        IsSuffix(context'.messages, FormatMessages(chat_history))]_vars

\* the step in which run r's turn ends after its backend call returned
EndsReturned(r) == pc[r] = "returned" /\ pc'[r] = "done"
\* the step in which run r's turn ends after its backend call failed
EndsFailed(r) == pc[r] = "raised" /\ pc'[r] = "done"

\* C32: a turn whose backend call fails (retries exhausted or an unclassified
\* error) leaves accumulated_tokens, accumulated_cost and
\* accumulated_manual_cost unchanged: from its submission to its end no step
\* of the turn writes them, the only step that does is the end of a turn
\* whose call returned.
C32_FailedTurnKeepsTotals ==
    [][/\ (\E r \in Runs : EndsFailed(r)) => accumulated' = accumulated
       /\ accumulated' # accumulated => \E r \in Runs : EndsReturned(r)]_vars

\* a turn has added to the totals and the next turn has failed after all its
\* retries: the totals are those of the first turn
C32_Witness ==
    /\ Len(turn_log) = 2
    /\ Successful(turn_log[1]) /\ TokensReported(turn_log[1].reported)
    /\ ~turn_log[2].returned
    /\ turn_log[2].content = ConnectivityMessage
    /\ accumulated.cost > 0
    /\ accumulated.cost = SumCost(SubSeq(turn_log, 1, 1))
    /\ chat_history # <<>>

\* a step that takes a turn out of chat_history or an entry out of show_thinking
Removes ==
    \/ Len(chat_history') < Len(chat_history)
    \/ ~(show_thinking.keys \subseteq show_thinking'.keys)

\* C33: clear_history empties chat_history and show_thinking and leaves every
\* other session variable unchanged, in particular accumulated_tokens,
\* accumulated_cost, accumulated_manual_cost, is_processing and
\* cancel_requested (and nothing else takes anything out of the two).
C33_ClearEmptiesHistoryOnly ==
    [][Removes =>
        /\ chat_history' = <<>>
        /\ show_thinking' = NoThinkingShown
        /\ UNCHANGED <<initialized, is_processing, cancel_requested, accumulated, context>>
        /\ UNCHANGED <<retryVars, handlerVars>>]_vars

\* the history has been cleared, with it the statistics that were shown,
\* while a turn was being processed after a cancelled one: the totals and the
\* flags are as they were
C33_Witness ==
    /\ chat_history = <<>>
    /\ show_thinking = NoThinkingShown
    /\ turn_log # <<>>
    /\ accumulated # InitialAccumulated
    /\ is_processing
    /\ cancel_requested

\* no submission is being processed: no run stands between its submission
\* and the end of its turn
Quiet == \A r \in Runs : pc[r] \in {"idle", "done"}

\* C34: every _process_user_message that runs to its end appends one user
\* turn followed by one assistant turn and modifies no earlier turn, so
\* whenever no submission is being processed the history has even length with
\* the roles alternating user, assistant.
C34_HistoryAlternates ==
    Quiet =>
        /\ Len(chat_history) % 2 = 0
        /\ \A i \in 1..Len(chat_history) :
            chat_history[i].role = (IF i % 2 = 1 THEN "user" ELSE "assistant")

\* C35: is_processing is set to True at the start of a submission and is
\* eventually reset to False on every path out of _process_user_message, so
\* the session never remains stuck refusing submissions.
C35_ProcessingEventuallyReset ==
    /\ [][(\E r \in Runs : Submits(r)) => is_processing']_vars
    /\ (is_processing ~> ~is_processing)

\* a turn that used all its retries has ended with the fixed reply, the flag
\* is reset and a run is left for the next submission
C35_Witness ==
    /\ ~is_processing
    /\ Len(turn_log) = 1
    /\ ~turn_log[1].returned
    /\ turn_log[1].content = BusyMessage
    /\ Quiet
    /\ \E r \in Runs : pc[r] = "idle"

\* the first turns of whole are those of part
IsPrefix(part, whole) ==
    Len(part) <= Len(whole) /\ part = SubSeq(whole, 1, Len(part))

\* the step in which request q, whose load had failed, saves
SavesAfterFailedLoad(q) ==
    /\ requests[q].pc = "ran" /\ requests[q].load_failed
    /\ requests'[q].pc = "saved"

\* C36: a failure to load a user's stored history never loses stored turns:
\* when restore_agent_state fails on a request and the request then completes
\* and saves, the turns that were stored before are still in the store
\* afterwards.
C36_FailedLoadKeepsStoredTurns ==
    [][\A q \in PlaygroundRequests : SavesAfterFailedLoad(q) => IsPrefix(stored, stored')]_vars

\* C37: a failing sink never changes what the assembler records: for every
\* event sequence the content buffer, current tool and tool counter after
\* processing with a sink whose calls may raise are those after processing
\* with no sink, and no exception propagates out of callback_handler.
C37_FailingSinkChangesNothing ==
    \A headless \in {Headless(delivered[UnitRun])} :
        /\ handler[UnitRun].content = headless.content
        /\ handler[UnitRun].current_tool = headless.current_tool
        /\ handler[UnitRun].tool_count = headless.tool_count
        /\ \A i \in 1..Len(rets[UnitRun]) : rets[UnitRun][i] = FALSE

\* a sink that does not raise leaves callback_handler as modelled before
SinkThatHolds ==
    \A ev \in Events :
        CallbackHandlerRaising(handler[UnitRun], ev, {}).h = CallbackHandler(handler[UnitRun], ev)

\* the manager has no agent or no bedrock agent
NotInitialized == ~manager.agent \/ ~manager.bedrock_agent

\* C38: when the agent manager has not been initialized (no agent or no
\* bedrock agent), process_message and process_message_with_streaming return
\* the fixed 'Agent not initialized' reply without calling the backend,
\* without reading the history window and without changing any
\* session-accumulated metric.
C38_GuardBeforeInitialization ==
    [][NotInitialized =>
        /\ reply' # reply => reply' = NotInitializedReply
        /\ UNCHANGED <<pc, calls, result, context, accumulated, handler>>]_vars

\* initialize_agent has failed after assigning bedrock_agent, and a call on
\* the manager got the fixed reply: no backend call, no history view
C38_Witness ==
    /\ manager = Manager(FALSE, TRUE)
    /\ ~initialized
    /\ reply = NotInitializedReply
    /\ \A r \in Runs : pc[r] = "idle" /\ calls[r] = 0
    /\ ~context.called
    /\ accumulated = InitialAccumulated

====
